---- MODULE Spec2Model ----
(***************************************************************************)
(* Panchanga API (src/main.py, src/modules/birth_chart.py,                 *)
(* src/modules/kundli.py).                                                 *)
(*                                                                         *)
(* Every request is independent: the state is the operation that was       *)
(* invoked last, the inputs it saw (arguments plus whatever the ephemeris  *)
(* engine, the clock and the timezone database answered) and what it       *)
(* returned or raised.                                                     *)
(*                                                                         *)
(* Numbers.  Python floats are modelled as exact fixed-point rationals:    *)
(*   - a longitude is an integer count of 1/LonScale degree;               *)
(*   - a value that went through round(x, 2) is an integer count of        *)
(*     1/100 degree (Round2 does the conversion);                          *)
(*   - a Julian Day is an integer count of hours (JDScale per day);        *)
(*   - an instant returned by calculate_muhurta is an integer count of     *)
(*     1/MuhurtaDiv hour, so that day_duration / 30 is exact.              *)
(***************************************************************************)
EXTENDS Integers, Sequences, FiniteSets, TLC

VARIABLES call, arg, ret

vars == <<call, arg, ret>>

(***************************************************************************)
(* Bounds of the model.                                                    *)
(***************************************************************************)
\* longitude resolution: units per degree
LonScale == 3
\* the ephemeris answers raw longitudes in [-360*MaxTurns, 360*(MaxTurns+1))
MaxTurns == 1
\* the Sun is drawn from the first MaxSun+1 units of each half circle
MaxSun == 1
\* civil years FirstYear .. FirstYear + NumYears - 1
NumYears == 1
\* rise/set events fall 0..MaxOffset steps of OffsetStep hours after jd
MaxOffset == 3

FirstYear == 2000
OffsetStep == 5

(***************************************************************************)
(* Program constants.                                                      *)
(***************************************************************************)
\* hours per day: jd carries hour / 24
JDScale == 24
\* day_duration / 30
MuhurtaDiv == 30
\* (moon - sun) % 360, (rahu + 180) % 360
FullCircle == 360
HalfCircle == 180
\* int(longitude / 30), longitude % 30
RashiSpan == 30
\* tithi_deg / 12, tithi_deg / 6
TithiSpan == 12
KaranaSpan == 6
\* moon_lon * 27 / 360
NakshatraCount == 27
\* karana_num % 10, (tithi_num - 1) % 15, tithi_num <= 15
KaranaCycle == 10
TithiCycle == 15
\* "maximum_points": 36
MaximumPoints == 36

(***************************************************************************)
(* Python arithmetic.                                                      *)
(***************************************************************************)
\* math.floor(a / b), b > 0
Floor(a, b) == a \div b

\* math.ceil(a / b), b > 0
Ceil(a, b) == -((-a) \div b)

\* int(a / b), b > 0: truncation toward zero
Trunc(a, b) == IF a >= 0 THEN a \div b ELSE -((-a) \div b)

\* round(a / b), b > 0: nearest integer, ties to the even one
RoundHalfEven(a, b) ==
    LET q == a \div b
        r == a % b
    IN  IF 2 * r < b THEN q
        ELSE IF 2 * r > b THEN q + 1
        ELSE IF q % 2 = 0 THEN q ELSE q + 1

\* round(x, 2) of a longitude of q units: hundredths of a degree
Round2(q) == RoundHalfEven(100 * q, LonScale)

\* seq[i] of a Python list: negative indices count from the end
Index(seq, i) ==
    IF i >= 0 /\ i < Len(seq) THEN seq[i + 1]
    ELSE IF i < 0 /\ i >= -Len(seq) THEN seq[Len(seq) + i + 1]
    ELSE "IndexError"

Ok(v) == [ok |-> TRUE, value |-> v]
Raise(e) == [ok |-> FALSE, error |-> e]

(***************************************************************************)
(* Name tables.                                                            *)
(***************************************************************************)
rashi_names ==
    <<"Mesha", "Vrishabha", "Mithuna", "Karka", "Simha", "Kanya", "Tula",
      "Vrishchika", "Dhanu", "Makara", "Kumbha", "Meena">>

tithi_names ==
    <<"Pratipada", "Dwitiya", "Tritiya", "Chaturthi", "Panchami", "Shashthi",
      "Saptami", "Ashtami", "Navami", "Dashami", "Ekadashi", "Dwadashi",
      "Trayodashi", "Chaturdashi", "Purnima/Amavasya">>

nakshatra_names ==
    <<"Ashwini", "Bharani", "Krittika", "Rohini", "Mrigashira", "Ardra",
      "Punarvasu", "Pushya", "Ashlesha", "Magha", "Purva Phalguni",
      "Uttara Phalguni", "Hasta", "Chitra", "Swati", "Vishakha", "Anuradha",
      "Jyeshtha", "Mula", "Purva Ashadha", "Uttara Ashadha", "Shravana",
      "Dhanishta", "Shatabhisha", "Purva Bhadrapada", "Uttara Bhadrapada",
      "Revati">>

nakshatra_lords ==
    <<"Ketu", "Venus", "Sun", "Moon", "Mars", "Rahu", "Jupiter", "Saturn",
      "Mercury", "Ketu", "Venus", "Sun", "Moon", "Mars", "Rahu", "Jupiter",
      "Saturn", "Mercury", "Ketu", "Venus", "Sun", "Moon", "Mars", "Rahu",
      "Jupiter", "Saturn", "Mercury">>

yoga_names ==
    <<"Vishkumbha", "Priti", "Ayushman", "Saubhagya", "Shobhana", "Atiganda",
      "Sukarman", "Dhriti", "Shula", "Ganda", "Vriddhi", "Dhruva", "Vyaghata",
      "Harshana", "Vajra", "Siddhi", "Vyatipata", "Variyan", "Parigha",
      "Shiva", "Siddha", "Sadhya", "Shubha", "Shukla", "Brahma", "Indra",
      "Vaidhriti">>

karana_names ==
    <<"Bava", "Balava", "Kaulava", "Taitila", "Garaja", "Vanija", "Visti",
      "Sakuni", "Chatushpada", "Naga">>

gulika_multipliers == <<6, 5, 4, 3, 2, 1, 0>>

\* disha_shool_map, keys 0..6 in order
disha_shool_map ==
    <<<<"East", "Taking sweet curd">>, <<"North", "Taking ghee">>,
      <<"South", "Taking red items">>, <<"West", "Taking curd">>,
      <<"North", "Taking yellow items">>, <<"East", "Taking white items">>,
      <<"West", "Taking black items">>>>

\* the weekday each key of disha_shool_map is annotated with
disha_shool_days ==
    <<"Sunday", "Monday", "Tuesday", "Wednesday", "Thursday", "Friday",
      "Saturday">>

\* the planets dict of calculate_birth_chart, in insertion order
planets ==
    <<"Sun", "Moon", "Mars", "Mercury", "Jupiter", "Venus", "Saturn", "Rahu">>

\* names bound at module level in src/main.py
main_globals ==
    {"os", "FastAPI", "HTTPException", "CORSMiddleware", "swe", "pytz",
     "datetime", "timedelta", "BaseModel", "Optional", "Dict", "Any", "List",
     "math", "app", "ephe_path", "DateRequest", "calculate_rashi",
     "calculate_birth_chart", "calculate_tithi", "calculate_nakshatra",
     "calculate_yoga", "calculate_karana", "calculate_muhurta",
     "calculate_disha_shool", "root", "get_panchanga"}

\* names bound at module level in src/modules/birth_chart.py
birth_chart_globals ==
    {"swe", "Dict", "Any", "calculate_rashi", "calculate_birth_chart"}

\* names bound at module level in src/modules/kundli.py
kundli_globals ==
    {"swe", "Dict", "Any", "calculate_rashi", "calculate_kundli_match"}

(***************************************************************************)
(* Calendrical derivation.  Each operator takes the longitudes that        *)
(* swe.calc_ut answered for the call's Julian Day (LonScale units).        *)
(***************************************************************************)
\* calculate_rashi with the remainder taking the sign of the longitude
calculate_rashi_signed_remainder(longitude) ==
    LET rashi_num == Trunc(longitude, RashiSpan * LonScale)
        degree == longitude - rashi_num * (RashiSpan * LonScale)
        rashi == Index(rashi_names, rashi_num)
    IN  IF rashi = "IndexError" THEN Raise("IndexError")
        ELSE Ok([rashi |-> rashi, degree |-> Round2(degree),
                 longitude |-> Round2(longitude)])

\* src/main.py calculate_rashi: degree and longitude are rounded
calculate_rashi(longitude) ==
    LET rashi_num == Trunc(longitude, RashiSpan * LonScale)
        degree == longitude % (RashiSpan * LonScale)
        rashi == Index(rashi_names, rashi_num)
    IN  IF rashi = "IndexError" THEN Raise("IndexError")
        ELSE Ok([rashi |-> rashi, degree |-> Round2(degree),
                 longitude |-> Round2(longitude)])

\* src/modules/birth_chart.py calculate_rashi: nothing is rounded
modules_calculate_rashi(longitude) ==
    LET rashi_num == Trunc(longitude, RashiSpan * LonScale)
        degree == longitude % (RashiSpan * LonScale)
        rashi == Index(rashi_names, rashi_num)
    IN  IF rashi = "IndexError" THEN Raise("IndexError")
        ELSE Ok([rashi |-> rashi, degree |-> degree, longitude |-> longitude])

\* the first planet, in dict order, whose Rashi lookup raises (0: none)
FirstFailure(results) ==
    LET failed == {i \in 1..Len(planets) : ~results[planets[i]].ok}
    IN  IF failed = {} THEN 0
        ELSE CHOOSE i \in failed : \A j \in failed : i <= j

\* src/main.py calculate_birth_chart; eph maps each planet to its longitude,
\* lagna_lon is houses[0] of swe.houses_ex
calculate_birth_chart(eph, lagna_lon) ==
    LET results == [p \in DOMAIN eph |-> calculate_rashi(eph[p])]
        bad == FirstFailure(results)
    IN  IF bad # 0 THEN results[planets[bad]]
        ELSE IF "rashi_names" \notin main_globals THEN Raise("NameError")
        ELSE
          LET rahu_lon == results["Rahu"].value.longitude
              ketu_lon == (rahu_lon + HalfCircle * 100) % (FullCircle * 100)
              ketu_rashi == Trunc(ketu_lon, RashiSpan * 100)
              lagna_rashi == Index(rashi_names,
                                   Trunc(lagna_lon, RashiSpan * LonScale))
              ketu == [rashi |-> Index(rashi_names, ketu_rashi),
                       degree |-> ketu_lon % (RashiSpan * 100),
                       longitude |-> ketu_lon]
              lagna == [rashi |-> lagna_rashi,
                        degree |-> Round2(lagna_lon % (RashiSpan * LonScale)),
                        longitude |-> Round2(lagna_lon)]
          IN  IF lagna_rashi = "IndexError" THEN Raise("IndexError")
              ELSE Ok([b \in DOMAIN eph \cup {"Ketu", "Lagna"} |->
                        IF b = "Ketu" THEN ketu
                        ELSE IF b = "Lagna" THEN lagna
                        ELSE results[b].value])

\* src/modules/birth_chart.py calculate_birth_chart: Ketu is the last key of
\* its planets dict and is looked up as the mean node again; the function
\* has no return statement
modules_calculate_birth_chart(eph) ==
    LET results == [p \in DOMAIN eph |-> modules_calculate_rashi(eph[p])]
        bad == FirstFailure(results)
    IN  IF bad # 0 THEN results[planets[bad]]
        ELSE IF "rashi_names" \notin birth_chart_globals
             THEN Raise("NameError")
        ELSE Ok("None")

calculate_tithi(sun_lon, moon_lon) ==
    LET tithi_deg == (moon_lon - sun_lon) % (FullCircle * LonScale)
        tithi_num == Ceil(tithi_deg, TithiSpan * LonScale)
        paksha == IF tithi_num <= TithiCycle THEN "Shukla" ELSE "Krishna"
        tithi_name == Index(tithi_names, (tithi_num - 1) % TithiCycle)
    IN  IF tithi_name = "IndexError" THEN Raise("IndexError")
        ELSE Ok([number |-> tithi_num, name |-> tithi_name,
                 paksha |-> paksha, degrees |-> Round2(tithi_deg)])

\* calculate_nakshatra with the segment rounded up instead of down
calculate_nakshatra_ceil(moon_lon) ==
    LET nakshatra_num ==
            Ceil(moon_lon * NakshatraCount, FullCircle * LonScale) + 1
        name == Index(nakshatra_names, nakshatra_num - 1)
        lord == Index(nakshatra_lords, nakshatra_num - 1)
        offset == (moon_lon * NakshatraCount) % (FullCircle * LonScale)
    IN  IF name = "IndexError" THEN Raise("IndexError")
        ELSE Ok([number |-> nakshatra_num, name |-> name, lord |-> lord,
                 degree |-> RoundHalfEven(100 * offset,
                                          NakshatraCount * LonScale)])

calculate_nakshatra(moon_lon) ==
    LET nakshatra_num ==
            Floor(moon_lon * NakshatraCount, FullCircle * LonScale) + 1
        name == Index(nakshatra_names, nakshatra_num - 1)
        lord == Index(nakshatra_lords, nakshatra_num - 1)
        \* (moon_lon * 27 / 360 % 1) * 360 / 27, in 1/(27*LonScale) degree
        offset == (moon_lon * NakshatraCount) % (FullCircle * LonScale)
    IN  IF name = "IndexError" THEN Raise("IndexError")
        ELSE Ok([number |-> nakshatra_num, name |-> name, lord |-> lord,
                 degree |-> RoundHalfEven(100 * offset,
                                          NakshatraCount * LonScale)])

calculate_yoga(sun_lon, moon_lon) ==
    LET yoga_lon == (sun_lon + moon_lon) % (FullCircle * LonScale)
        yoga_num == Floor(yoga_lon * NakshatraCount, FullCircle * LonScale) + 1
        name == Index(yoga_names, yoga_num - 1)
        offset == (yoga_lon * NakshatraCount) % (FullCircle * LonScale)
    IN  IF name = "IndexError" THEN Raise("IndexError")
        ELSE Ok([number |-> yoga_num, name |-> name,
                 degree |-> RoundHalfEven(100 * offset,
                                          NakshatraCount * LonScale)])

calculate_karana(sun_lon, moon_lon) ==
    LET tithi_deg == (moon_lon - sun_lon) % (FullCircle * LonScale)
        karana_num == Ceil(tithi_deg, KaranaSpan * LonScale)
        name == Index(karana_names, karana_num % KaranaCycle)
    IN  IF name = "IndexError" THEN Raise("IndexError")
        ELSE Ok([number |-> karana_num, name |-> name,
                 degree |-> Round2(tithi_deg % (KaranaSpan * LonScale))])

(***************************************************************************)
(* Timing derivation.  jd, sunrise and sunset are in hours; the instants   *)
(* returned are in 1/MuhurtaDiv hour.                                      *)
(***************************************************************************)
\* int(jd + 0.5) % 7
weekday_of(jd) == Trunc(jd + JDScale \div 2, JDScale) % 7

\* calculate_muhurta with Gulika Kaal ending one muhurta after its start
calculate_muhurta_short_gulika(jd, sunrise, sunset) ==
    LET muhurta_duration == sunset - sunrise
        weekday == weekday_of(jd)
        rise == MuhurtaDiv * sunrise
        rahu_start == rise + (muhurta_duration * weekday * 2)
        rahu_end == rahu_start + (muhurta_duration * 2)
        gulika_multiplier == Index(gulika_multipliers, weekday)
        gulika_start == rise + (muhurta_duration * gulika_multiplier * 2)
        gulika_end == gulika_start + muhurta_duration
    IN  Ok([abhijit |-> [start |-> rise + (muhurta_duration * 15),
                         end |-> rise + (muhurta_duration * 16)],
            rahu_kaal |-> [start |-> rahu_start, end |-> rahu_end],
            gulika_kaal |-> [start |-> gulika_start, end |-> gulika_end]])

calculate_muhurta(jd, sunrise, sunset) ==
    LET day_duration == sunset - sunrise
        \* day_duration / 30, in 1/MuhurtaDiv hour
        muhurta_duration == day_duration
        weekday == weekday_of(jd)
        rise == MuhurtaDiv * sunrise
        rahu_start == rise + (muhurta_duration * weekday * 2)
        rahu_end == rahu_start + (muhurta_duration * 2)
        gulika_multiplier == Index(gulika_multipliers, weekday)
        gulika_start == rise + (muhurta_duration * gulika_multiplier * 2)
        gulika_end == gulika_start + (muhurta_duration * 2)
    IN  Ok([abhijit |-> [start |-> rise + (muhurta_duration * 15),
                         end |-> rise + (muhurta_duration * 16)],
            rahu_kaal |-> [start |-> rahu_start, end |-> rahu_end],
            gulika_kaal |-> [start |-> gulika_start, end |-> gulika_end]])

calculate_disha_shool(jd) ==
    LET weekday == weekday_of(jd)
        entry == Index(disha_shool_map, weekday)
    IN  Ok([direction |-> entry[1], remedy |-> entry[2],
            duration |-> "First 3 muhurtas of the day"])

(***************************************************************************)
(* Compatibility scoring.                                                  *)
(***************************************************************************)
\* src/modules/kundli.py calculate_kundli_match: the two Moon signs are
\* computed, then calculate_varna_koota is looked up in the module's
\* namespace.  No file of the repository defines calculate_varna_koota or
\* calculate_vashya_koota, so nothing after that lookup can be evaluated.
calculate_kundli_match(boy_moon_lon, girl_moon_lon) ==
    LET boy_moon_sign == modules_calculate_rashi(boy_moon_lon)
        girl_moon_sign == modules_calculate_rashi(girl_moon_lon)
    IN  CASE ~boy_moon_sign.ok -> boy_moon_sign
          [] ~girl_moon_sign.ok -> girl_moon_sign
          [] "calculate_varna_koota" \notin kundli_globals ->
                Raise("NameError")

(***************************************************************************)
(* Time conversion.                                                        *)
(***************************************************************************)
IsLeap(y) == (y % 4 = 0 /\ y % 100 # 0) \/ y % 400 = 0

DaysInMonth(y, m) ==
    IF m = 2 THEN (IF IsLeap(y) THEN 29 ELSE 28)
    ELSE IF m \in {4, 6, 9, 11} THEN 30 ELSE 31

\* swe.julday(year, month, day, hour + minute/60.0), Gregorian calendar, for
\* years of the common era and a whole number of hours; the result is in
\* hours
julday(year, month, day, hour) ==
    LET u == IF month < 3 THEN year - 1 ELSE year
        u0 == u + 4712
        u1 == IF month + 1 < 4 THEN month + 13 ELSE month + 1
        \* floor(u0 * 365.25) + floor(30.6 * u1 + 0.000001) + day - 63.5
        whole == Floor(u0 * 1461, 4) + Floor(306 * u1, 10) + day - 63
        u2 == Floor(u, 100) - Floor(u, 400)
    IN  JDScale * (whole - u2 + 2) - JDScale \div 2 + hour

\* date.toordinal(): days since 0001-01-01, that day being 1
RECURSIVE DaysBeforeMonth(_, _)
DaysBeforeMonth(y, m) ==
    IF m = 1 THEN 0 ELSE DaysBeforeMonth(y, m - 1) + DaysInMonth(y, m - 1)

toordinal(y, m, d) ==
    LET p == y - 1
    IN  p * 365 + Floor(p, 4) - Floor(p, 100) + Floor(p, 400)
        + DaysBeforeMonth(y, m) + d

\* date.strftime("%A")
day_names ==
    <<"Monday", "Tuesday", "Wednesday", "Thursday", "Friday", "Saturday",
      "Sunday">>

strftime_A(y, m, d) == day_names[((toordinal(y, m, d) + 6) % 7) + 1]

\* datetime.strptime(text, "%Y-%m-%d"); a date string is modelled by the
\* digits it holds, or as text that does not match the pattern
strptime(date) ==
    IF date.kind = "ymd" /\ date.m \in 1..12
       /\ date.d \in 1..DaysInMonth(date.y, date.m)
    THEN Ok([y |-> date.y, m |-> date.m, d |-> date.d, hour |-> 0])
    ELSE Raise("ValueError")

\* identifiers pytz.timezone resolves
pytz_zones == {"Asia/Kolkata", "UTC"}

(***************************************************************************)
(* Inputs.                                                                 *)
(***************************************************************************)
Degrees(n) == n * LonScale

\* what swe.calc_ut may answer when nothing normalises it
RawLons == Degrees(-FullCircle * MaxTurns) .. Degrees(FullCircle * (MaxTurns + 1)) - 1

\* longitudes within [0, 360)
SiderealLons == 0 .. Degrees(FullCircle) - 1

InRange(lon) == lon \in SiderealLons

SunLons == {Degrees(h * HalfCircle) + k : h \in {0, 1}, k \in 0..MaxSun}

ChartLons == {Degrees(FullCircle) - 1, Degrees(FullCircle)}

Years == FirstYear .. FirstYear + NumYears - 1

CivilDates ==
    {<<y, m, d>> \in Years \X (1..12) \X (1..31) : d <= DaysInMonth(y, m)}

\* first hour, noon and last hour of the civil day
DayHours == {0, JDScale \div 2, JDScale - 1}

\* answers of swe.rise_trans for a call at jd: (return flag, instant)
RiseAnswers(jd) ==
    {[flag |-> -2, t |-> 0]}
        \cup {[flag |-> 0, t |-> jd + k * OffsetStep] : k \in 0..MaxOffset}

\* DateRequest.date values: absent, empty, not matching %Y-%m-%d, or digits
RequestDates ==
    {[kind |-> k, y |-> 0, m |-> 0, d |-> 0] : k \in {"none", "empty", "malformed"}}
        \cup {[kind |-> "ymd", y |-> y, m |-> m, d |-> d] :
                  y \in Years, m \in {2, 12}, d \in {1, 29, 30, 31}}

RequestTimezones == pytz_zones \cup {"Mars/Olympus", "None"}

\* datetime.now(tz) answers
Clock == {[y |-> y, m |-> m, d |-> d, hour |-> t] :
              y \in Years, m \in {1}, d \in {1, 2}, t \in DayHours}

\* what the ephemeris engine answers during one request
Worlds ==
    {[lon |-> [p \in {planets[i] : i \in 1..Len(planets)} |->
                  IF p = "Moon" THEN mo ELSE su],
      lagna |-> mo,
      sun_event |-> se, moon_event |-> me] :
        su \in {0, Degrees(HalfCircle)}, mo \in {0, Degrees(HalfCircle)},
        se \in {-2, 0}, me \in {-2, 0}}

(***************************************************************************)
(* API surface.                                                            *)
(***************************************************************************)
HTTPException(detail) == [status |-> 500, detail |-> detail]

\* the first step, in call order, that raised (0: none)
FirstRaised(steps) ==
    LET failed == {i \in 1..Len(steps) : ~steps[i].ok}
    IN  IF failed = {} THEN 0
        ELSE CHOOSE i \in failed : \A j \in failed : i <= j

\* ResolveDate reading the clock without resolving request.timezone
ResolveDate_unchecked_timezone(request, now) ==
    IF request.date.kind \in {"malformed", "ymd"} THEN strptime(request.date)
    ELSE Ok(now)

\* request.date is used when truthy, else the clock of request.timezone
ResolveDate(request, now) ==
    IF request.date.kind \in {"malformed", "ymd"} THEN strptime(request.date)
    ELSE IF request.timezone \notin pytz_zones
         THEN Raise("UnknownTimeZoneError")
    ELSE Ok(now)

\* the handler of POST /panchanga/
get_panchanga(request, now, world) ==
    LET parsed == ResolveDate(request, now)
    IN  IF ~parsed.ok THEN HTTPException(parsed.error)
        ELSE
          LET date == parsed.value
              jd == julday(date.y, date.m, date.d, date.hour)
              sun_lon == world.lon["Sun"]
              moon_lon == world.lon["Moon"]
              Event(flag, k) ==
                  [flag |-> flag,
                   t |-> IF flag < 0 THEN 0 ELSE jd + k * OffsetStep]
              sunrise == Event(world.sun_event, 1)
              sunset == Event(world.sun_event, 2)
              moonrise == Event(world.moon_event, 1)
              moonset == Event(world.moon_event, 2)
              steps == <<calculate_birth_chart(world.lon, world.lagna),
                         calculate_tithi(sun_lon, moon_lon),
                         calculate_nakshatra(moon_lon),
                         calculate_yoga(sun_lon, moon_lon),
                         calculate_karana(sun_lon, moon_lon),
                         calculate_muhurta(jd, sunrise.t, sunset.t),
                         calculate_disha_shool(jd)>>
              bad == FirstRaised(steps)
              Timing(e) == IF e.flag >= 0 THEN MuhurtaDiv * e.t ELSE -1
          IN  IF bad # 0 THEN HTTPException(steps[bad].error)
              ELSE [status |-> 200,
                    date |-> <<date.y, date.m, date.d>>,
                    day |-> strftime_A(date.y, date.m, date.d),
                    birth_chart |-> steps[1].value,
                    tithi |-> steps[2].value,
                    nakshatra |-> steps[3].value,
                    yoga |-> steps[4].value,
                    karana |-> steps[5].value,
                    muhurta |-> steps[6].value,
                    disha_shool |-> steps[7].value,
                    sun_timings |-> [rise |-> Timing(sunrise),
                                     set |-> Timing(sunset)],
                    moon_timings |-> [rise |-> Timing(moonrise),
                                      set |-> Timing(moonset)]]

\* the handler of GET /
root == [status |-> 200, message |-> "Panchanga API is running"]

(***************************************************************************)
(* The state machine: the server is idle, one operation is invoked with    *)
(* its inputs and yields its result, the result is delivered.              *)
(***************************************************************************)
Init ==
    /\ call = "idle"
    /\ arg = <<>>
    /\ ret = <<>>

Invoke(name, inputs, result) ==
    /\ call' = name
    /\ arg' = inputs
    /\ ret' = result

Call_calculate_rashi ==
    /\ call = "idle"
    /\ \E lon \in RawLons :
        Invoke("calculate_rashi", [longitude |-> lon], calculate_rashi(lon))

Call_modules_calculate_rashi ==
    /\ call = "idle"
    /\ \E lon \in RawLons :
        Invoke("modules.calculate_rashi", [longitude |-> lon],
               modules_calculate_rashi(lon))

ChartEphemerides ==
    {[p \in {planets[i] : i \in 1..Len(planets)} |->
         IF p = "Rahu" THEN rahu ELSE IF p = "Sun" THEN sun ELSE other] :
        rahu \in SunLons \cup ChartLons, sun \in ChartLons,
        other \in ChartLons}

Call_calculate_birth_chart ==
    /\ call = "idle"
    /\ \E eph \in ChartEphemerides, lagna \in SunLons \cup ChartLons :
        Invoke("calculate_birth_chart", [lon |-> eph, lagna |-> lagna],
               calculate_birth_chart(eph, lagna))

Call_modules_calculate_birth_chart ==
    /\ call = "idle"
    /\ \E eph \in ChartEphemerides :
        Invoke("modules.calculate_birth_chart", [lon |-> eph],
               modules_calculate_birth_chart(eph))

Call_calculate_tithi ==
    /\ call = "idle"
    /\ \E sun \in SunLons, moon \in RawLons :
        Invoke("calculate_tithi", [sun_lon |-> sun, moon_lon |-> moon],
               calculate_tithi(sun, moon))

Call_calculate_nakshatra ==
    /\ call = "idle"
    /\ \E moon \in RawLons :
        Invoke("calculate_nakshatra", [moon_lon |-> moon],
               calculate_nakshatra(moon))

Call_calculate_yoga ==
    /\ call = "idle"
    /\ \E sun \in SunLons, moon \in RawLons :
        Invoke("calculate_yoga", [sun_lon |-> sun, moon_lon |-> moon],
               calculate_yoga(sun, moon))

Call_calculate_karana ==
    /\ call = "idle"
    /\ \E sun \in SunLons, moon \in RawLons :
        Invoke("calculate_karana", [sun_lon |-> sun, moon_lon |-> moon],
               calculate_karana(sun, moon))

Call_calculate_muhurta ==
    /\ call = "idle"
    /\ \E date \in CivilDates, t \in DayHours :
        LET jd == julday(date[1], date[2], date[3], t)
        IN  \E rise \in RiseAnswers(jd), set \in RiseAnswers(jd) :
                Invoke("calculate_muhurta",
                       [date |-> date, jd |-> jd, sunrise |-> rise.t,
                        sunset |-> set.t],
                       calculate_muhurta(jd, rise.t, set.t))

Call_calculate_disha_shool ==
    /\ call = "idle"
    /\ \E date \in CivilDates, t \in DayHours :
        LET jd == julday(date[1], date[2], date[3], t)
        IN  Invoke("calculate_disha_shool", [date |-> date, jd |-> jd],
                   calculate_disha_shool(jd))

Call_calculate_kundli_match ==
    /\ call = "idle"
    /\ \E boy \in SunLons \cup ChartLons, girl \in RawLons :
        Invoke("calculate_kundli_match",
               [boy_moon_lon |-> boy, girl_moon_lon |-> girl],
               calculate_kundli_match(boy, girl))

Call_get_panchanga ==
    /\ call = "idle"
    /\ \E date \in RequestDates, tz \in RequestTimezones, now \in Clock,
       world \in Worlds :
        LET request == [date |-> date, timezone |-> tz]
        IN  Invoke("get_panchanga",
                   [request |-> request, now |-> now, world |-> world],
                   get_panchanga(request, now, world))

Call_root ==
    /\ call = "idle"
    /\ Invoke("root", <<>>, root)

\* the result goes back to the caller; nothing is kept
Return ==
    /\ call # "idle"
    /\ call' = "idle"
    /\ arg' = <<>>
    /\ ret' = <<>>

Next ==
    \/ Call_calculate_rashi
    \/ Call_modules_calculate_rashi
    \/ Call_calculate_birth_chart
    \/ Call_modules_calculate_birth_chart
    \/ Call_calculate_tithi
    \/ Call_calculate_nakshatra
    \/ Call_calculate_yoga
    \/ Call_calculate_karana
    \/ Call_calculate_muhurta
    \/ Call_calculate_disha_shool
    \/ Call_calculate_kundli_match
    \/ Call_get_panchanga
    \/ Call_root
    \/ Return

Spec == Init /\ [][Next]_vars

(***************************************************************************)
(* Properties.                                                             *)
(***************************************************************************)
TithiCase ==
    /\ call = "calculate_tithi"
    /\ InRange(arg.sun_lon)
    /\ InRange(arg.moon_lon)

TithiDiff == (arg.moon_lon - arg.sun_lon) % Degrees(FullCircle)

\* C1: for every Sun and Moon longitude in [0,360) the Tithi number that
\* calculate_tithi returns is in 1..30, Moon = Sun included.
C1_TithiNumberInRange ==
    TithiCase => ret.ok /\ ret.value.number \in 1..(2 * TithiCycle)

\* C2: the paksha flips exactly at diff = 180: there the Tithi number is 16
\* and the paksha is Krishna, and for every diff below 180 it is Shukla.
C2_PakshaFlipsAtHalfCircle ==
    TithiCase =>
        /\ ret.ok
        /\ TithiDiff = Degrees(HalfCircle) =>
              ret.value.number = TithiCycle + 1 /\ ret.value.paksha = "Krishna"
        /\ TithiDiff < Degrees(HalfCircle) => ret.value.paksha = "Shukla"

\* C3: the weekday index int(jd + 0.5) % 7 of calculate_muhurta and
\* calculate_disha_shool is 0 on Sunday .. 6 on Saturday: for the Julian Day
\* of a civil date it names that date's weekday, and is 0 exactly on Sundays.
C3_WeekdayIndexIsCivilWeekday ==
    call \in {"calculate_disha_shool", "calculate_muhurta"} =>
        LET civil == strftime_A(arg.date[1], arg.date[2], arg.date[3])
            w == weekday_of(arg.jd)
        IN  /\ disha_shool_days[w + 1] = civil
            /\ w = 0 <=> civil = "Sunday"

ChartBodies ==
    {"Sun", "Moon", "Mars", "Mercury", "Jupiter", "Venus", "Saturn", "Rahu",
     "Ketu", "Lagna"}

\* C4: when every longitude the ephemeris answers is in [0,360),
\* calculate_birth_chart returns a chart with the ten bodies, in which Ketu's
\* longitude is (Rahu's longitude + 180) mod 360 and Ketu's sign is the
\* Rashi table entry at floor(Ketu longitude / 30).
C4_BirthChartComplete ==
    /\ call = "calculate_birth_chart"
          /\ (\A p \in DOMAIN arg.lon : InRange(arg.lon[p]))
          /\ InRange(arg.lagna)
          => /\ ret.ok
             /\ DOMAIN ret.value = ChartBodies
             /\ ret.value["Ketu"].longitude =
                   (ret.value["Rahu"].longitude + HalfCircle * 100)
                       % (FullCircle * 100)
             /\ ret.value["Ketu"].rashi =
                   rashi_names[Floor(ret.value["Ketu"].longitude,
                                     RashiSpan * 100) + 1]
    /\ call = "modules.calculate_birth_chart"
          /\ (\A p \in DOMAIN arg.lon : InRange(arg.lon[p]))
          => /\ ret.ok
             /\ ret.value # "None"

C6_KundliMatchResult ==
    call = "calculate_kundli_match"
        /\ InRange(arg.boy_moon_lon) /\ InRange(arg.girl_moon_lon)
        => /\ ret.ok
           /\ ret.value.total_points =
                 ret.value.detailed_kootas.varna
                     + ret.value.detailed_kootas.vashya
           /\ ret.value.total_points \in 0..MaximumPoints
           /\ ret.value.maximum_points = MaximumPoints
           /\ ret.value.compatibility_percentage * MaximumPoints =
                 ret.value.total_points * 100

UnresolvableTimezone ==
    /\ call = "get_panchanga"
    /\ arg.request.timezone \notin pytz_zones

NoDateSupplied == arg.request.date.kind \in {"none", "empty"}

\* C7 as stated: a request whose timezone is not resolvable fails with the
\* unknown-timezone error as the server-error response, whether or not a
\* date is supplied.
C7_UnknownTimezoneAlwaysFails ==
    UnresolvableTimezone =>
        ret.status = 500 /\ ret.detail = "UnknownTimeZoneError"

\* C7 as amended: a request that supplies no date (absent or empty) and
\* whose timezone is not resolvable fails with the unknown-timezone error as
\* the server-error response.
C7_UnknownTimezoneFailsWithoutDate ==
    UnresolvableTimezone /\ NoDateSupplied =>
        ret.status = 500 /\ ret.detail = "UnknownTimeZoneError"

C7_Witness ==
    /\ UnresolvableTimezone
    /\ arg.request.date.kind = "none"
    /\ arg.request.timezone = "Mars/Olympus"
    /\ ret = HTTPException("UnknownTimeZoneError")

\* C8: the Abhijit window is the 8th of 15 equal segments of
\* [sunrise, sunset] and its midpoint is (sunrise + sunset) / 2.
C8_AbhijitCentredOnMidday ==
    call = "calculate_muhurta" =>
        LET day == arg.sunset - arg.sunrise
            window == ret.value.abhijit
        IN  /\ window.start = MuhurtaDiv * arg.sunrise + 7 * (2 * day)
            /\ window.end = MuhurtaDiv * arg.sunrise + 8 * (2 * day)
            /\ window.start + window.end =
                  MuhurtaDiv * (arg.sunrise + arg.sunset)

\* C9: for every weekday and every sunrise/sunset pair the Rahu Kaal and
\* Gulika Kaal windows are 2 muhurtas wide and the Abhijit window is 1
\* muhurta wide, muhurta = (sunset - sunrise) / 30.
C9_WindowWidths ==
    call = "calculate_muhurta" =>
        LET muhurta == arg.sunset - arg.sunrise
        IN  /\ ret.ok
            /\ ret.value.rahu_kaal.end - ret.value.rahu_kaal.start
                  = 2 * muhurta
            /\ ret.value.gulika_kaal.end - ret.value.gulika_kaal.start
                  = 2 * muhurta
            /\ ret.value.abhijit.end - ret.value.abhijit.start = muhurta

C9_Witness ==
    /\ call = "calculate_muhurta"
    /\ weekday_of(arg.jd) = 6
    /\ arg.sunset - arg.sunrise = 2 * OffsetStep
    /\ ret.value.gulika_kaal.start = MuhurtaDiv * arg.sunrise
    /\ ret.value.gulika_kaal.end - ret.value.gulika_kaal.start
          = 4 * OffsetStep
    /\ ret.value.rahu_kaal.start - ret.value.gulika_kaal.start
          = 24 * OffsetStep

\* C10: for Sun and Moon longitudes in [0,360) the Nakshatra and Yoga
\* numbers are in 1..27 and the Karana name index karana_num mod 10 is in
\* 0..9, so no name or lord lookup of the three functions is out of range.
C10_TableIndicesInRange ==
    /\ call = "calculate_nakshatra" /\ InRange(arg.moon_lon) =>
          /\ ret.ok
          /\ ret.value.number \in 1..NakshatraCount
          /\ ret.value.name = nakshatra_names[ret.value.number]
          /\ ret.value.lord = nakshatra_lords[ret.value.number]
    /\ call = "calculate_yoga" /\ InRange(arg.sun_lon)
          /\ InRange(arg.moon_lon) =>
          /\ ret.ok
          /\ ret.value.number \in 1..NakshatraCount
          /\ ret.value.name = yoga_names[ret.value.number]
    /\ call = "calculate_karana" /\ InRange(arg.sun_lon)
          /\ InRange(arg.moon_lon) =>
          /\ ret.ok
          /\ ret.value.number % KaranaCycle \in 0..(KaranaCycle - 1)
          /\ ret.value.name =
                karana_names[(ret.value.number % KaranaCycle) + 1]

C10_Witness ==
    /\ call = "calculate_nakshatra"
    /\ arg.moon_lon = Degrees(FullCircle) - 1
    /\ ret.ok
    /\ ret.value.number = NakshatraCount
    /\ ret.value.name = "Revati"

====
